---- MODULE Spec2Model ----
(***************************************************************************)
(* Berry: exclusive access to the GPIO and PWM lines of a Raspberry Pi     *)
(* through the kernel's sysfs files.                                       *)
(*                                                                         *)
(* The model follows the Pin class (gpio), the PWM class (pwm) and the     *)
(* process-wide pin lock (utils.ts).  Deno.writeTextFile/readTextFile are  *)
(* asynchronous: a call puts an operation in flight, and the operation     *)
(* lands (or fails) in a later step, in any order relative to the other    *)
(* operations in flight.  The continuation after an `await` runs in the    *)
(* step in which the awaited operation lands.                              *)
(*                                                                         *)
(* Numbers written to the PWM attribute files are kept in units of 1/Den   *)
(* nanosecond, so that fraction * period is exact: the number x is held as *)
(* the integer x * Den.                                                    *)
(***************************************************************************)
EXTENDS Integers, Sequences, FiniteSets, TLC

\* ------------------------------------------------------------------------
\* Bounds of the model
\* ------------------------------------------------------------------------
\* connect calls the model follows (each slot is one call of a connect)
MaxHandles == 2
\* largest period (ns) passed to setPeriod
MaxPeriod == 2
\* duty-cycle fractions are the multiples of 1/Den
Den == 2
\* floating (never awaited) duty-cycle writes that may be in flight at once
MaxFloat == 1

Handles == 1..MaxHandles

\* ------------------------------------------------------------------------
\* Identifiers and enumerations
\* ------------------------------------------------------------------------
\* PinId: the ids the model draws for Pin.connect (1 is the README's pin,
\* 12 is also a PWM id, so a Pin and a PWM can compete for it)
GPIOs == {1, 12}

pwmId == ("0" :> <<12, 18>>) @@ ("1" :> <<13, 19>>)

PwmId == UNION {{pwmId[c][i] : i \in DOMAIN pwmId[c]} : c \in DOMAIN pwmId}

Direction == {"IN", "OUT", "INOUT"}

Value == {"HIGH", "LOW"}

Edge == {"NONE", "RISING", "FALLING", "BOTH"}

\* Object.entries(pwmId).filter(chip => chip[1].includes(id))[0][0]
getPinPwmChip(id) ==
    IF \E i \in DOMAIN pwmId["0"] : pwmId["0"][i] = id THEN "0" ELSE "1"

pinToChannel(id) == IF id = 12 \/ id = 18 THEN 0 ELSE 1

\* ------------------------------------------------------------------------
\* Paths
\* ------------------------------------------------------------------------
gpioPaths ==
    [main     |-> "/sys/class/gpio",
     export   |-> "/sys/class/gpio/export",
     unexport |-> "/sys/class/gpio/unexport"]

gpioPin(id) ==
    [direction |-> "/sys/class/gpio/gpio" \o ToString(id) \o "/direction",
     value     |-> "/sys/class/gpio/gpio" \o ToString(id) \o "/value"]

pwnPaths(id) ==
    LET chip == "/sys/class/pwm/pwmchip" \o getPinPwmChip(id)
        pwm  == chip \o "/pwm" \o ToString(pinToChannel(id))
    IN  [dutyCycle |-> pwm \o "/duty_clycle",
         period    |-> pwm \o "/period",
         enable    |-> pwm \o "/enable",
         export    |-> chip \o "/export",
         unexport  |-> chip \o "/unexport"]

\* the attribute files the classes read and write
AttrPaths ==
    UNION {{gpioPin(i).direction, gpioPin(i).value} : i \in GPIOs \cup PwmId}
    \cup UNION {{pwnPaths(i).dutyCycle, pwnPaths(i).period, pwnPaths(i).enable}
                : i \in PwmId}

\* ------------------------------------------------------------------------
\* Conversions
\* ------------------------------------------------------------------------
paramaterToSys(parameter) ==
    CASE parameter = "IN"      -> "in"
      [] parameter = "OUT"     -> "out"
      [] parameter = "INOUT"   -> "inout"
      [] parameter = "HIGH"    -> "1"
      [] parameter = "LOW"     -> "0"
      [] parameter = "BOTH"    -> "both"
      [] parameter = "FALLING" -> "falling"
      [] parameter = "NONE"    -> "none"
      [] parameter = "RISING"  -> "rising"
      [] OTHER                 -> "TypeError"

sysToParameter(parameter) ==
    CASE parameter = "in"      -> "IN"
      [] parameter = "out"     -> "OUT"
      [] parameter = "inout"   -> "INOUT"
      [] parameter = "1"       -> "HIGH"
      [] parameter = "0"       -> "LOW"
      [] parameter = "both"    -> "BOTH"
      [] parameter = "falling" -> "FALLING"
      [] parameter = "none"    -> "NONE"
      [] parameter = "rising"  -> "RISING"
      [] OTHER                 -> "TypeError"

\* ------------------------------------------------------------------------
\* State
\* ------------------------------------------------------------------------
VARIABLES
    sessionStorage, \* the keys holding 'lock' (utils.ts)
    handle,         \* per connect call: the object it builds and its progress
    inflight,       \* file operations issued and not yet landed
    gpioExported,   \* kernel: GPIO lines under software control
    pwmExported,    \* kernel: exported <<chip path, channel>> pairs
    fs,             \* kernel: content of the attribute files
    ev              \* the step just taken: operation, handle, argument, result

vars == <<sessionStorage, handle, inflight, gpioExported, pwmExported, fs, ev>>

hw == <<gpioExported, pwmExported, fs>>

\* `${import.meta.url}/pin#${id}}`: one key per id, shared by Pin and PWM
LockKey(id) == "pin#" \o ToString(id) \o "}"

\* kind, id, direction, period, dutyCycle, enabled: the fields of the object;
\* st: progress of the connect call and of the handle's life; pc: the call
\* in progress on the handle; done: the last call of setPeriod or
\* setDutyCycle that completed; owner: who got the handle; failed: a file
\* operation of the handle has failed; unexportFailed: its unexport write
\* has failed
NoHandle ==
    [kind |-> "none", id |-> 0, direction |-> "none", st |-> "unused",
     pc |-> "idle", period |-> 0, dutyCycle |-> 0, enabled |-> FALSE,
     owner |-> "none", failed |-> FALSE, unexportFailed |-> FALSE,
     done |-> "none"]

Event(op, h, arg, res) == [op |-> op, h |-> h, arg |-> arg, res |-> res]

\* a file operation in flight: `text` is the string written, `num` the
\* number written (in units of 1/Den) when the content is number.toString()
Op(h, tag, path, text, num) ==
    [h |-> h, tag |-> tag, path |-> path, text |-> text, num |-> num]

Content(text, num) == [text |-> text, num |-> num]

Init ==
    /\ sessionStorage = {}
    /\ handle = [h \in Handles |-> NoHandle]
    /\ inflight = {}
    /\ gpioExported = {}
    /\ pwmExported = {}
    /\ fs = [p \in AttrPaths |-> Content("", 0)]
    /\ ev = Event("init", 0, 0, "ok")

\* ------------------------------------------------------------------------
\* The kernel side of the attribute-file interface
\* ------------------------------------------------------------------------
\* the line a decimal string names
SysToId(text) ==
    IF \E i \in GPIOs \cup PwmId : ToString(i) = text
    THEN CHOOSE i \in GPIOs \cup PwmId : ToString(i) = text
    ELSE -1

PwmChipExport == {pwnPaths(i).export : i \in PwmId}

PwmChipUnexport == {pwnPaths(i).unexport : i \in PwmId}

\* a write that lands: the control files export and unexport lines, any
\* other path keeps the content written to it
SysfsWrite(w) ==
    /\ gpioExported' =
         IF w.path = gpioPaths.export THEN gpioExported \cup {SysToId(w.text)}
         ELSE IF w.path = gpioPaths.unexport THEN gpioExported \ {SysToId(w.text)}
         ELSE gpioExported
    /\ pwmExported' =
         IF w.path \in PwmChipExport THEN pwmExported \cup {<<w.path, w.text>>}
         ELSE IF w.path \in PwmChipUnexport
              THEN {e \in pwmExported :
                      ~(\E i \in PwmId : /\ pwnPaths(i).unexport = w.path
                                         /\ pwnPaths(i).export = e[1]
                                         /\ e[2] = w.text)}
         ELSE pwmExported
    /\ fs' = IF w.path \in AttrPaths
             THEN [fs EXCEPT ![w.path] = Content(w.text, w.num)]
             ELSE fs

\* ------------------------------------------------------------------------
\* utils.ts: globalPinLock
\* ------------------------------------------------------------------------
globalPinLockNeverThrows(id) == FALSE

\* sessionStorage.getItem(key) !== null
globalPinLockThrows(id) == LockKey(id) \in sessionStorage

\* sessionStorage.setItem(key, 'lock')
setItem(id) == sessionStorage \cup {LockKey(id)}

releaseNoop(id) == sessionStorage

\* release: () => sessionStorage.removeItem(key)
release(id) == sessionStorage \ {LockKey(id)}

\* ------------------------------------------------------------------------
\* Helpers on the operations in flight
\* ------------------------------------------------------------------------
InFlight(h, tag) == \E w \in inflight : w.h = h /\ w.tag = tag

TheOp(h, tag) == CHOOSE w \in inflight : w.h = h /\ w.tag = tag

Floats == {w \in inflight : w.tag = "dutyFloat"}

\* ------------------------------------------------------------------------
\* Scope-bound disposal (`using`)
\* ------------------------------------------------------------------------
\* the well-known dispose symbols an object carries: connect is `static
\* async`, so what the caller gets is a Promise; Pin and PWM define
\* [Symbol.asyncDispose] only
DisposeMethods(kind) ==
    IF kind \in {"Pin", "PWM"} THEN {"Symbol.asyncDispose"} ELSE {}

\* `using x = v` registers v for disposal at scope exit only if v has a
\* Symbol.dispose method; otherwise the declaration throws a TypeError
UsingTracks(kind) == "Symbol.dispose" \in DisposeMethods(kind)

\* who can call the handle's dispose: the caller that holds it, or the
\* scope that tracks it
CanDispose(h) ==
    \/ handle[h].owner = "caller"
    \/ handle[h].owner = "using" /\ UsingTracks("Promise")

\* ------------------------------------------------------------------------
\* Pin
\* ------------------------------------------------------------------------
openPin(h, id) == Op(h, "openPin", gpioPaths.export, ToString(id), 0)

setDirection(h, id, direction) ==
    Op(h, "setDirection", gpioPin(id).direction, paramaterToSys(direction), 0)

\* connect call h is the next one: the calls are numbered in the order in
\* which they are made
NextCall(h) ==
    /\ handle[h].st = "unused"
    /\ \A k \in Handles : k < h => handle[k].st # "unused"

PinConnectBothWrites(h, id, direction, owner) ==
    /\ NextCall(h)
    /\ ~globalPinLockThrows(id)
    /\ sessionStorage' = setItem(id)
    /\ handle' = [handle EXCEPT ![h] =
                    [NoHandle EXCEPT !.kind = "Pin", !.id = id,
                                     !.direction = direction,
                                     !.st = "connecting",
                                     !.pc = "openPin",
                                     !.owner = owner]]
    /\ inflight' = inflight \cup {Op(h, "openPin", gpioPaths.export, ToString(id), 0),
                                  Op(h, "setDirection", gpioPin(id).direction,
                                     paramaterToSys(direction), 0)}
    /\ ev' = Event("Pin.connect", h, id, "pending")
    /\ UNCHANGED hw

\* static async connect({ id, direction }), up to its first await
PinConnectAs(h, id, direction, owner) ==
    /\ NextCall(h)
    /\ IF globalPinLockThrows(id)
       THEN /\ ev' = Event("Pin.connect", h, id, "AlreadyClaimed")
            /\ UNCHANGED <<sessionStorage, handle, inflight, hw>>
       ELSE /\ sessionStorage' = setItem(id)
            /\ handle' = [handle EXCEPT ![h] =
                            [NoHandle EXCEPT !.kind = "Pin", !.id = id,
                                             !.direction = direction,
                                             !.st = "connecting",
                                             !.pc = "openPin",
                                             !.owner = owner]]
            /\ inflight' = inflight \cup {openPin(h, id)}
            /\ ev' = Event("Pin.connect", h, id, "pending")
            /\ UNCHANGED hw

PinConnect(h, id, direction) == PinConnectAs(h, id, direction, "caller")

\* README: using pin = Pin.connect({ id: 1, direction: Pin.Direction.INOUT })
ReadmePinExample(h) == PinConnectAs(h, 1, "INOUT", "using")

\* await this.#openPin({ id }) resumes
OpenPinDone(h, ok) ==
    /\ InFlight(h, "openPin")
    /\ LET w == TheOp(h, "openPin")
           me == handle[h]
       IN IF ok
          THEN /\ SysfsWrite(w)
               /\ inflight' = (inflight \ {w})
                                \cup {setDirection(h, me.id, me.direction)}
               /\ handle' = [handle EXCEPT ![h].pc = "setDirection"]
               /\ ev' = Event("openPin", h, me.id, "ok")
          ELSE /\ inflight' = inflight \ {w}
               /\ handle' = [handle EXCEPT ![h].st = "rejected",
                                           ![h].pc = "idle",
                                           ![h].failed = TRUE]
               /\ ev' = Event("Pin.connect", h, me.id, "IoFailure")
               /\ UNCHANGED hw
    /\ UNCHANGED sessionStorage

\* await this.#setDirection({ id, direction }) resumes; return new Pin(...)
SetDirectionDone(h, ok) ==
    /\ InFlight(h, "setDirection")
    /\ LET w == TheOp(h, "setDirection")
           me == handle[h]
       IN /\ inflight' = inflight \ {w}
          /\ IF ok
             THEN /\ SysfsWrite(w)
                  /\ handle' = [handle EXCEPT ![h].st = "live", ![h].pc = "idle"]
                  /\ ev' = Event("Pin.connect", h, me.id, "ok")
             ELSE /\ handle' = [handle EXCEPT ![h].st = "rejected",
                                              ![h].pc = "idle",
                                              ![h].failed = TRUE]
                  /\ ev' = Event("Pin.connect", h, me.id, "IoFailure")
                  /\ UNCHANGED hw
    /\ UNCHANGED sessionStorage

Usable(h, kind) ==
    /\ handle[h].kind = kind
    /\ handle[h].st = "live"
    /\ handle[h].pc = "idle"
    /\ handle[h].owner = "caller"

\* write(value)
PinWrite(h, value) ==
    /\ Usable(h, "Pin")
    /\ inflight' = inflight
         \cup {Op(h, "write", gpioPin(handle[h].id).value, paramaterToSys(value), 0)}
    /\ handle' = [handle EXCEPT ![h].pc = "write"]
    /\ ev' = Event("Pin.write", h, 0, "pending")
    /\ UNCHANGED <<sessionStorage, hw>>

WriteDone(h, ok) ==
    /\ InFlight(h, "write")
    /\ LET w == TheOp(h, "write")
       IN /\ inflight' = inflight \ {w}
          /\ handle' = [handle EXCEPT ![h].pc = "idle",
                                      ![h].failed = @ \/ ~ok]
          /\ ev' = Event("Pin.write", h, 0, IF ok THEN "ok" ELSE "IoFailure")
          /\ IF ok THEN SysfsWrite(w) ELSE UNCHANGED hw
    /\ UNCHANGED sessionStorage

PinReadAnyDirection(h) ==
    /\ Usable(h, "Pin")
    /\ inflight' = inflight
         \cup {Op(h, "read", gpioPin(handle[h].id).value, "", 0)}
    /\ handle' = [handle EXCEPT ![h].pc = "read"]
    /\ ev' = Event("Pin.read", h, 0, "pending")
    /\ UNCHANGED <<sessionStorage, hw>>

\* async read(), up to its await
PinRead(h) ==
    /\ Usable(h, "Pin")
    /\ IF handle[h].direction = "OUT"
       THEN /\ ev' = Event("Pin.read", h, 0, "InvalidOperation")
            /\ UNCHANGED <<sessionStorage, handle, inflight, hw>>
       ELSE /\ inflight' = inflight
                 \cup {Op(h, "read", gpioPin(handle[h].id).value, "", 0)}
            /\ handle' = [handle EXCEPT ![h].pc = "read"]
            /\ ev' = Event("Pin.read", h, 0, "pending")
            /\ UNCHANGED <<sessionStorage, hw>>

\* what the value attribute may hold when it is read
ValueContents == {"1", "0", "", "in", "rising"}

\* await Deno.readTextFile(...) resumes; return sysToParameter(value).
\* The event keeps the content that was read next to what read() returned.
ReadDone(h, ok, content) ==
    /\ InFlight(h, "read")
    /\ inflight' = inflight \ {TheOp(h, "read")}
    /\ handle' = [handle EXCEPT ![h].pc = "idle", ![h].failed = @ \/ ~ok]
    /\ ev' = IF ok THEN Event("Pin.read", h, content, sysToParameter(content))
                    ELSE Event("Pin.read", h, "", "IoFailure")
    /\ UNCHANGED <<sessionStorage, hw>>

unexport(h, id) == Op(h, "unexport", gpioPaths.unexport, ToString(id), 0)

asyncDisposeKeepsLock(h) ==
    /\ handle[h].st = "live" /\ handle[h].pc = "idle" /\ CanDispose(h)
    /\ inflight' = inflight \cup {unexport(h, handle[h].id)}
    /\ handle' = [handle EXCEPT ![h].st = "disposed", ![h].pc = "unexport"]
    /\ ev' = Event("dispose", h, handle[h].id, "pending")
    /\ UNCHANGED <<sessionStorage, hw>>

\* [Symbol.asyncDispose](): the body is the same in Pin and in PWM
asyncDispose(h) ==
    /\ handle[h].st = "live" /\ handle[h].pc = "idle" /\ CanDispose(h)
    /\ sessionStorage' = release(handle[h].id)
    /\ inflight' = inflight \cup {unexport(h, handle[h].id)}
    /\ handle' = [handle EXCEPT ![h].st = "disposed", ![h].pc = "unexport"]
    /\ ev' = Event("dispose", h, handle[h].id, "pending")
    /\ UNCHANGED hw

PinDispose(h) == handle[h].kind = "Pin" /\ asyncDispose(h)

PwmDispose(h) == handle[h].kind = "PWM" /\ asyncDispose(h)

\* the unexport write of a dispose lands or fails
UnexportDone(h, ok) ==
    /\ InFlight(h, "unexport")
    /\ LET w == TheOp(h, "unexport")
       IN /\ inflight' = inflight \ {w}
          /\ handle' = [handle EXCEPT ![h].pc = "idle",
                                      ![h].unexportFailed = ~ok]
          /\ ev' = Event("dispose", h, handle[h].id,
                         IF ok THEN "ok" ELSE "IoFailure")
          /\ IF ok THEN SysfsWrite(w) ELSE UNCHANGED hw
    /\ UNCHANGED sessionStorage

\* ------------------------------------------------------------------------
\* PWM
\* ------------------------------------------------------------------------
pwmExport(h, id) ==
    Op(h, "pwmExport", pwnPaths(id).export, ToString(pinToChannel(id)), 0)

\* static async connect({ id }), up to its await
PwmConnect(h, id) ==
    /\ NextCall(h)
    /\ IF globalPinLockThrows(id)
       THEN /\ ev' = Event("PWM.connect", h, id, "AlreadyClaimed")
            /\ UNCHANGED <<sessionStorage, handle, inflight, hw>>
       ELSE /\ sessionStorage' = setItem(id)
            /\ handle' = [handle EXCEPT ![h] =
                            [NoHandle EXCEPT !.kind = "PWM", !.id = id,
                                             !.st = "connecting",
                                             !.pc = "pwmExport",
                                             !.owner = "caller"]]
            /\ inflight' = inflight \cup {pwmExport(h, id)}
            /\ ev' = Event("PWM.connect", h, id, "pending")
            /\ UNCHANGED hw

\* the export write lands; return new PWM(...) with #period = 0,
\* #dutyCycle = 0, #enabled = false
PwmExportDone(h, ok) ==
    /\ InFlight(h, "pwmExport")
    /\ LET w == TheOp(h, "pwmExport")
           me == handle[h]
       IN /\ inflight' = inflight \ {w}
          /\ IF ok
             THEN /\ SysfsWrite(w)
                  /\ handle' = [handle EXCEPT ![h].st = "live", ![h].pc = "idle"]
                  /\ ev' = Event("PWM.connect", h, me.id, "ok")
             ELSE /\ handle' = [handle EXCEPT ![h].st = "rejected",
                                              ![h].pc = "idle",
                                              ![h].failed = TRUE]
                  /\ ev' = Event("PWM.connect", h, me.id, "IoFailure")
                  /\ UNCHANGED hw
    /\ UNCHANGED sessionStorage

\* get infos()
infos(h) ==
    [dutyCycle |-> handle[h].dutyCycle,
     period    |-> handle[h].period,
     enabled   |-> handle[h].enabled,
     id        |-> handle[h].id,
     channel   |-> pinToChannel(handle[h].id),
     chip      |-> getPinPwmChip(handle[h].id)]

\* the fractions setDutyCycle is called with, as numerators over Den:
\* -1/Den and (Den+1)/Den lie outside [0, 1].  The arguments are rational
\* numbers: NaN, which both comparisons of the range check let through, is
\* not among them.
Percentages == (0 - 1)..(Den + 1)

Periods == 0..MaxPeriod

dutyRangeNoCheck(percentage) == FALSE

\* percentage < 0 || percentage > 1
dutyRangeError(percentage) == percentage < 0 \/ percentage > Den

\* Deno.writeTextFile(paths.dutyCycle, (percentage * this.#period).toString())
dutyWrite(h, tag, percentage, period) ==
    Op(h, tag, pwnPaths(handle[h].id).dutyCycle, "", percentage * period)

\* Deno.writeTextFile(paths.period, duration.toString())
periodWrite(h, duration) ==
    Op(h, "period", pwnPaths(handle[h].id).period, "", duration * Den)

\* setDutyCycle(percentage), called by the user of the handle
setDutyCycle(h, percentage) ==
    /\ Usable(h, "PWM")
    /\ IF dutyRangeError(percentage)
       THEN /\ ev' = Event("PWM.setDutyCycle", h, percentage, "RangeError")
            /\ UNCHANGED <<sessionStorage, handle, inflight, hw>>
       ELSE /\ handle' = [handle EXCEPT ![h].dutyCycle = percentage,
                                        ![h].pc = "setDutyCycle"]
            /\ inflight' = inflight
                 \cup {dutyWrite(h, "duty", percentage, handle[h].period)}
            /\ ev' = Event("PWM.setDutyCycle", h, percentage, "pending")
            /\ UNCHANGED <<sessionStorage, hw>>

\* async setPeriod(duration), up to its await.  When the period grows,
\* this.setDutyCycle(this.#dutyCycle) runs first, against the old #period,
\* and the promise it returns is dropped: its write floats.
setPeriod(h, duration) ==
    /\ Usable(h, "PWM")
    /\ LET me == handle[h]
           grows == duration > me.period
           float == IF grows
                    THEN {dutyWrite(h, "dutyFloat", me.dutyCycle, me.period)}
                    ELSE {}
       IN /\ Cardinality(Floats \cup float) <= MaxFloat
          /\ handle' = [handle EXCEPT ![h].period = duration,
                                      ![h].pc = IF grows THEN "setPeriod.inc"
                                                         ELSE "setPeriod.dec"]
          /\ inflight' = inflight \cup float \cup {periodWrite(h, duration)}
          /\ ev' = Event("PWM.setPeriod", h, duration, "pending")
    /\ UNCHANGED <<sessionStorage, hw>>

PeriodDoneResets(h, ok) ==
    /\ InFlight(h, "period")
    /\ LET w == TheOp(h, "period")
           me == handle[h]
       IN IF ok
          THEN /\ SysfsWrite(w)
               /\ inflight' = (inflight \ {w})
                     \cup {dutyWrite(h, "duty", me.dutyCycle, me.period)}
               /\ ev' = Event("period", h, me.period, "ok")
               /\ UNCHANGED handle
          ELSE /\ inflight' = inflight \ {w}
               /\ handle' = [handle EXCEPT ![h].pc = "idle", ![h].failed = TRUE,
                                           ![h].period = 0]
               /\ ev' = Event(me.pc, h, me.period, "IoFailure")
               /\ UNCHANGED hw
    /\ UNCHANGED sessionStorage

\* the period write lands; return this.setDutyCycle(this.#dutyCycle)
PeriodDone(h, ok) ==
    /\ InFlight(h, "period")
    /\ LET w == TheOp(h, "period")
           me == handle[h]
       IN IF ok
          THEN /\ SysfsWrite(w)
               /\ inflight' = (inflight \ {w})
                     \cup {dutyWrite(h, "duty", me.dutyCycle, me.period)}
               /\ ev' = Event("period", h, me.period, "ok")
               /\ UNCHANGED handle
          ELSE /\ inflight' = inflight \ {w}
               /\ handle' = [handle EXCEPT ![h].pc = "idle", ![h].failed = TRUE]
               /\ ev' = Event(me.pc, h, me.period, "IoFailure")
               /\ UNCHANGED hw
    /\ UNCHANGED sessionStorage

\* the awaited duty-cycle write lands: the promise returned by setDutyCycle
\* (or by setPeriod, which returns it) settles
DutyDone(h, ok) ==
    /\ InFlight(h, "duty")
    /\ LET w == TheOp(h, "duty")
           me == handle[h]
       IN /\ inflight' = inflight \ {w}
          /\ handle' = [handle EXCEPT ![h].pc = "idle", ![h].failed = @ \/ ~ok,
                                      ![h].done = me.pc]
          /\ ev' = Event(me.pc, h, me.dutyCycle, IF ok THEN "ok" ELSE "IoFailure")
          /\ IF ok THEN SysfsWrite(w) ELSE UNCHANGED hw
    /\ UNCHANGED sessionStorage

\* a floating duty-cycle write lands, whenever the host gets to it
DutyFloatDone(w, ok) ==
    /\ w \in Floats
    /\ inflight' = inflight \ {w}
    /\ handle' = [handle EXCEPT ![w.h].failed = @ \/ ~ok]
    /\ ev' = Event("dutyFloat", w.h, w.num, IF ok THEN "ok" ELSE "IoFailure")
    /\ IF ok THEN SysfsWrite(w) ELSE UNCHANGED hw
    /\ UNCHANGED sessionStorage

\* Deno.writeTextFile(pwnPaths.pwm(this.#id).enable, '1' or '0')
enableWrite(h, text) == Op(h, "enable", pwnPaths(handle[h].id).enable, text, 0)

enableKeepsFlag(h) ==
    /\ Usable(h, "PWM")
    /\ handle' = [handle EXCEPT ![h].pc = "enable"]
    /\ inflight' = inflight \cup {enableWrite(h, "1")}
    /\ ev' = Event("PWM.enable", h, 1, "pending")
    /\ UNCHANGED <<sessionStorage, hw>>

\* enable(): this.#enabled = true, then the write, whose promise is returned
enable(h) ==
    /\ Usable(h, "PWM")
    /\ handle' = [handle EXCEPT ![h].enabled = TRUE, ![h].pc = "enable"]
    /\ inflight' = inflight \cup {enableWrite(h, "1")}
    /\ ev' = Event("PWM.enable", h, 1, "pending")
    /\ UNCHANGED <<sessionStorage, hw>>

\* disable(): this.#enabled = false, then the write, whose promise is returned
disable(h) ==
    /\ Usable(h, "PWM")
    /\ handle' = [handle EXCEPT ![h].enabled = FALSE, ![h].pc = "disable"]
    /\ inflight' = inflight \cup {enableWrite(h, "0")}
    /\ ev' = Event("PWM.disable", h, 0, "pending")
    /\ UNCHANGED <<sessionStorage, hw>>

\* the promise returned by enable() or disable() settles
EnableDone(h, ok) ==
    /\ InFlight(h, "enable")
    /\ LET w == TheOp(h, "enable")
           me == handle[h]
       IN /\ inflight' = inflight \ {w}
          /\ handle' = [handle EXCEPT ![h].pc = "idle", ![h].failed = @ \/ ~ok,
                                      ![h].done = me.pc]
          /\ ev' = Event(me.pc, h, 0, IF ok THEN "ok" ELSE "IoFailure")
          /\ IF ok THEN SysfsWrite(w) ELSE UNCHANGED hw
    /\ UNCHANGED sessionStorage

\* ------------------------------------------------------------------------
\* Specifications
\* ------------------------------------------------------------------------
\* Spec: claims and disposal, Pin and PWM handles together
Next ==
    \/ \E h \in Handles, id \in GPIOs, d \in Direction : PinConnect(h, id, d)
    \/ \E h \in Handles : ReadmePinExample(h)
    \/ \E h \in Handles, id \in PwmId : PwmConnect(h, id)
    \/ \E h \in Handles, ok \in BOOLEAN : OpenPinDone(h, ok)
    \/ \E h \in Handles, ok \in BOOLEAN : SetDirectionDone(h, ok)
    \/ \E h \in Handles, ok \in BOOLEAN : PwmExportDone(h, ok)
    \/ \E h \in Handles, v \in Value : PinWrite(h, v)
    \/ \E h \in Handles, ok \in BOOLEAN : WriteDone(h, ok)
    \/ \E h \in Handles : PinRead(h)
    \/ \E h \in Handles, ok \in BOOLEAN, c \in ValueContents : ReadDone(h, ok, c)
    \/ \E h \in Handles : PinDispose(h)
    \/ \E h \in Handles : PwmDispose(h)
    \/ \E h \in Handles, ok \in BOOLEAN : UnexportDone(h, ok)

Spec == Init /\ [][Next]_vars

\* SpecPwm: one PWM handle, its calls issued one after the other
PwmHandles == {1}

\* README: using pwm0 = PWM.connect({ id: 12 }); 19 is on the other chip
PwmExampleIds == {12, 19}

NextPwm ==
    \/ \E h \in PwmHandles, id \in PwmExampleIds : PwmConnect(h, id)
    \/ \E h \in PwmHandles, ok \in BOOLEAN : PwmExportDone(h, ok)
    \/ \E h \in PwmHandles, f \in Percentages : setDutyCycle(h, f)
    \/ \E h \in PwmHandles, d \in Periods : setPeriod(h, d)
    \/ \E h \in PwmHandles, ok \in BOOLEAN : PeriodDone(h, ok)
    \/ \E h \in PwmHandles, ok \in BOOLEAN : DutyDone(h, ok)
    \/ \E w \in inflight, ok \in BOOLEAN : DutyFloatDone(w, ok)

SpecPwm == Init /\ [][NextPwm]_vars

\* `ns` is `number`: nothing in the type keeps a duration from being negative
NegativePeriods == (0 - MaxPeriod)..(0 - 1)

\* SpecPwmAny: SpecPwm, with setPeriod also called with negative durations
NextPwmAny ==
    \/ NextPwm
    \/ \E h \in PwmHandles, d \in NegativePeriods : setPeriod(h, d)

SpecPwmAny == Init /\ [][NextPwmAny]_vars

\* SpecEnable: one PWM handle on any id of the table, enabled and disabled
NextEnable ==
    \/ \E h \in PwmHandles, id \in PwmId : PwmConnect(h, id)
    \/ \E h \in PwmHandles, ok \in BOOLEAN : PwmExportDone(h, ok)
    \/ \E h \in PwmHandles : enable(h)
    \/ \E h \in PwmHandles : disable(h)
    \/ \E h \in PwmHandles, ok \in BOOLEAN : EnableDone(h, ok)

SpecEnable == Init /\ [][NextEnable]_vars

\* ------------------------------------------------------------------------
\* Properties
\* ------------------------------------------------------------------------
AllIds == GPIOs \cup PwmId

\* the handle of connect call h holds the claim on line id
Holds(h, id) == handle[h].id = id /\ handle[h].st \in {"connecting", "live"}

\* the same, in the state a step leads to
HoldsNext(h, id) == handle'[h].id = id /\ handle'[h].st \in {"connecting", "live"}

ConnectCall(e) ==
    e.op \in {"Pin.connect", "PWM.connect"} /\ e.res \in {"AlreadyClaimed", "pending"}

\* C1: at any time at most one handle, Pin or PWM, holds the claim on a
\* given line id.
C1_AtMostOneClaim ==
    \A id \in AllIds : Cardinality({h \in Handles : Holds(h, id)}) <= 1

\* a PWM connect on a line was just refused while a live Pin holds that line
C1_Witness ==
    /\ ev.op = "PWM.connect" /\ ev.res = "AlreadyClaimed"
    /\ \E h \in Handles : handle[h].kind = "Pin" /\ handle[h].st = "live"
                          /\ handle[h].id = ev.arg

\* C2: a connect on x issued while a handle on x is alive fails with the
\* already-claimed error and changes neither the registry nor any handle; a
\* dispose leaves x unclaimed, and a connect on an unclaimed x takes the claim.
C2_SecondConnectFails ==
    [][/\ ConnectCall(ev') =>
            IF \E h \in Handles : Holds(h, ev'.arg)
            THEN /\ ev'.res = "AlreadyClaimed"
                 /\ sessionStorage' = sessionStorage
                 /\ handle' = handle
            ELSE LockKey(ev'.arg) \notin sessionStorage =>
                    /\ ev'.res = "pending"
                    /\ HoldsNext(ev'.h, ev'.arg)
       /\ (ev'.op = "dispose" /\ ev'.res = "pending") =>
            /\ handle[ev'.h].st = "live"
            /\ LockKey(ev'.arg) \notin sessionStorage'
            /\ \A h \in Handles : ~HoldsNext(h, ev'.arg)
      ]_vars

\* a line whose first handle was disposed is held by a second, live handle
C2_Witness ==
    \E h1, h2 \in Handles :
        /\ handle[h1].st = "disposed"
        /\ handle[h2].st = "live"
        /\ handle[h2].id = handle[h1].id

ScopeEnded(h) == handle[h].owner = "using"

ConnectSucceeded(h) == handle[h].st \in {"live", "disposed"}

\* C3: a handle obtained in a `using` scope as the README writes it has been
\* disposed once the scope has ended and its connect has succeeded.
C3_ScopeExitDisposes ==
    \A h \in Handles :
        (ScopeEnded(h) /\ ConnectSucceeded(h)) => handle[h].st = "disposed"

\* C4: when Pin.connect fails on its export or direction write, the claim it
\* took is released by the time the failure reaches the caller.
C4_FailedConnectReleases ==
    (ev.op = "Pin.connect" /\ ev.res = "IoFailure")
        => LockKey(ev.arg) \notin sessionStorage

\* C5: dispose removes the registry entry of its line whatever failed on
\* the handle before, the outcome of the unexport write does not bring the
\* entry back, and a connect on the line issued once it is free takes it.
C5_DisposeAlwaysReleases ==
    [][/\ (ev'.op = "dispose" /\ ev'.res = "pending") =>
            LockKey(ev'.arg) \notin sessionStorage'
       /\ (ev'.op = "dispose" /\ ev'.res \in {"ok", "IoFailure"}) =>
            sessionStorage' = sessionStorage
       /\ (ConnectCall(ev') /\ LockKey(ev'.arg) \notin sessionStorage) =>
            ev'.res = "pending"
      ]_vars

\* a Pin with a failed operation was disposed, its unexport write failed,
\* and a later connect holds the same line
C5_Witness ==
    \E h1, h2 \in Handles :
        /\ handle[h1].kind = "Pin" /\ handle[h1].st = "disposed"
        /\ handle[h1].failed /\ handle[h1].unexportFailed
        /\ handle[h2].st = "live" /\ handle[h2].id = handle[h1].id

HwDuty(h) == fs[pwnPaths(handle[h].id).dutyCycle].num

HwPeriod(h) == fs[pwnPaths(handle[h].id).period].num

LivePwm(h) == handle[h].kind = "PWM" /\ handle[h].st = "live"

\* Math.round(percentage * period), percentage being a numerator over Den
Round(percentage, period) == (2 * percentage * period + Den) \div (2 * Den)

\* C6: while every write of a PWM handle has succeeded, the duty-cycle
\* attribute never holds more than the period attribute.
C6_DutyNeverExceedsPeriod ==
    \A h \in Handles :
        (LivePwm(h) /\ ~handle[h].failed) => HwDuty(h) <= HwPeriod(h)

\* C7: while a setPeriod that raises the period has its period write in
\* flight the duty-cycle attribute is at most the old period, and from the
\* completion of that setPeriod until the next call the attribute holds
\* round(f * p1).
C7_IncreaseIsSafe ==
    \A h \in Handles :
        (LivePwm(h) /\ ~handle[h].failed) =>
            /\ (handle[h].pc = "setPeriod.inc" /\ InFlight(h, "period"))
                    => HwDuty(h) <= HwPeriod(h)
            /\ (handle[h].pc = "idle" /\ handle[h].done = "setPeriod.inc")
                    => HwDuty(h) = Round(handle[h].dutyCycle, handle[h].period) * Den

\* the second half of C7 where f * p1 is a whole number, so that rounding
\* plays no part: only the order in which the writes land decides it
IncreaseEndsAtNewDuty ==
    \A h \in Handles :
        (/\ LivePwm(h) /\ ~handle[h].failed
         /\ handle[h].pc = "idle" /\ handle[h].done = "setPeriod.inc"
         /\ (handle[h].dutyCycle * handle[h].period) % Den = 0)
            => HwDuty(h) = handle[h].dutyCycle * handle[h].period

C9_RoundTrip ==
    \A h \in Handles :
        (/\ ev.op = "PWM.setDutyCycle" /\ ev.res = "pending" /\ ev.h = h
         /\ ~handle[h].failed) =>
            /\ handle[h].dutyCycle = ev.arg
            /\ TheOp(h, "duty").num = Round(ev.arg, handle[h].period) * Den

\* C10: read() on a pin connected OUT fails with the invalid-operation error
\* and issues nothing; on IN or INOUT it issues exactly one read, of the
\* pin's own value attribute.
C10_ReadChecksDirection ==
    [][\A h \in Handles :
         (ev'.op = "Pin.read" /\ ev'.h = h
          /\ ev'.res \in {"pending", "InvalidOperation"}) =>
            IF handle[h].direction = "OUT"
            THEN ev'.res = "InvalidOperation" /\ inflight' = inflight
            ELSE /\ ev'.res = "pending"
                 /\ inflight \subseteq inflight'
                 /\ inflight' \ inflight =
                      {Op(h, "read",
                          "/sys/class/gpio/gpio" \o ToString(handle[h].id) \o "/value",
                          "", 0)}
      ]_vars

\* a read was just refused on an OUT pin while the read of another pin,
\* connected IN or INOUT, is in flight
C10_Witness ==
    /\ ev.op = "Pin.read" /\ ev.res = "InvalidOperation"
    /\ handle[ev.h].direction = "OUT"
    /\ \E h \in Handles : /\ handle[h].direction \in {"IN", "INOUT"}
                          /\ InFlight(h, "read")

\* C11: a write to the value attribute is in flight only for a pin connected
\* OUT or INOUT: write() on a pin connected IN issues nothing.
C11_WriteChecksDirection ==
    \A w \in inflight :
        (w.tag = "write" /\ handle[w.h].kind = "Pin") =>
            handle[w.h].direction \in {"OUT", "INOUT"}

\* C12: a read() that got the content of the value attribute returns HIGH
\* when the content is "1" and LOW for every other content; it neither fails
\* nor returns a Direction or an Edge constant.
C12_ReadMapsToValue ==
    (ev.op = "Pin.read" /\ ev.res \notin {"pending", "InvalidOperation", "IoFailure"})
        => ev.res = (IF ev.arg = "1" THEN "HIGH" ELSE "LOW")

\* C13: setPeriod with a negative duration fails with the invalid-argument
\* error and issues no write, and the recorded period is never negative.
C13_NegativePeriodRejected ==
    /\ (ev.op = "PWM.setPeriod" /\ ev.arg < 0) =>
            /\ ev.res = "InvalidArgument"
            /\ ~InFlight(ev.h, "period")
    /\ \A h \in Handles : handle[h].period >= 0

\* the chip of the table whose pair contains id
ChipOfTable(id) == CHOOSE c \in DOMAIN pwmId : \E i \in DOMAIN pwmId[c] : pwmId[c][i] = id

\* the position of id inside its chip's pair, counted from 0
PositionInPair(id) ==
    (CHOOSE i \in DOMAIN pwmId[ChipOfTable(id)] : pwmId[ChipOfTable(id)][i] = id) - 1

\* C14: for every PWM handle, as long as it exists, infos reports the chip
\* whose pair contains the id and, as channel, the position of the id inside
\* that pair: 12 -> (0, 0), 18 -> (0, 1), 13 -> (1, 0), 19 -> (1, 1).
C14_ChipAndChannel ==
    \A h \in Handles :
        handle[h].kind = "PWM" =>
            /\ infos(h).chip = ChipOfTable(handle[h].id)
            /\ infos(h).channel = PositionInPair(handle[h].id)
            /\ <<handle[h].id, infos(h).chip, infos(h).channel>> \in
                  {<<12, "0", 0>>, <<18, "0", 1>>, <<13, "1", 0>>, <<19, "1", 1>>}

\* C15: the write PWM.connect issues is the channel index to the export
\* file of the id's chip, and the write a dispose of the PWM handle issues
\* is the same channel index to the unexport file of the same chip, never a
\* write to a GPIO path.
C15_PwmExportUnexport ==
    \A w \in inflight :
        handle[w.h].kind = "PWM" =>
            LET id   == handle[w.h].id
                chip == "/sys/class/pwm/pwmchip" \o infos(w.h).chip
            IN /\ w.tag = "pwmExport" =>
                    /\ w.path = chip \o "/export"
                    /\ w.text = ToString(infos(w.h).channel)
               /\ w.tag = "unexport" =>
                    /\ w.path = chip \o "/unexport"
                    /\ w.text = ToString(infos(w.h).channel)
                    /\ w.path \notin {gpioPaths.export, gpioPaths.unexport}

HwEnabled(h) == fs[pwnPaths(handle[h].id).enable].text = "1"

EnableCallDone(h) == ev.op \in {"enable", "disable"} /\ ev.h = h

\* C16 as claimed: whenever an enable() or disable() call has finished,
\* with its write landed or failed, the recorded flag is true exactly when
\* the enable attribute holds "1".
C16_FlagAgreesAlways ==
    \A h \in Handles :
        (EnableCallDone(h) /\ ev.res \in {"ok", "IoFailure"})
            => handle[h].enabled = HwEnabled(h)

\* C16: when an enable() or disable() call has finished the recorded flag
\* is what the call asked for (true after enable, false after disable); if
\* its write landed the enable attribute holds "1" exactly when the flag is
\* true, and if its write failed the attribute is as it was before the call.
C16_FlagAgreesOnSuccess ==
    /\ [](\A h \in Handles :
            (EnableCallDone(h) /\ ev.res \in {"ok", "IoFailure"}) =>
                /\ handle[h].enabled = (ev.op = "enable")
                /\ ev.res = "ok" => handle[h].enabled = HwEnabled(h))
    /\ [][(ev'.op \in {"enable", "disable"} /\ ev'.res = "IoFailure")
              => hw' = hw]_vars

\* an enable() has just landed on a handle whose earlier disable() had
\* failed: flag and attribute agree again
C16_Witness ==
    \E h \in Handles :
        /\ EnableCallDone(h) /\ ev.op = "enable" /\ ev.res = "ok"
        /\ handle[h].failed
        /\ handle[h].enabled /\ HwEnabled(h)

Issued(h, tag) == ~InFlight(h, tag) /\ InFlight(h, tag)'

Landed(h, tag) == InFlight(h, tag) /\ ~InFlight(h, tag)' /\ ev'.res = "ok"

\* C17: for every Pin handle, the direction write is issued in the step in
\* which the export write lands and never earlier, the handle is returned
\* in the step in which the direction write lands, and the unexport write of
\* a dispose is issued with the registry entry already removed.
C17_ConnectAndDisposeOrder ==
    /\ [][\A h \in Handles :
            /\ Issued(h, "setDirection") =>
                    /\ Landed(h, "openPin")
                    /\ handle[h].id \in gpioExported'
            /\ (handle[h].kind = "Pin" /\ handle[h].st # "live"
                                       /\ handle'[h].st = "live") =>
                    /\ Landed(h, "setDirection")
                    /\ fs'[gpioPin(handle[h].id).direction].text
                          = paramaterToSys(handle[h].direction)
            /\ (handle[h].kind = "Pin" /\ Issued(h, "unexport")) =>
                    LockKey(handle[h].id) \notin sessionStorage'
         ]_vars
    /\ [](\A h \in Handles :
            /\ ~(InFlight(h, "openPin") /\ InFlight(h, "setDirection"))
            /\ (handle[h].kind = "Pin" /\ handle[h].st \in {"live", "disposed"}) =>
                    ~(InFlight(h, "openPin") \/ InFlight(h, "setDirection")))

\* a Pin that was connected and then disposed has its unexport write in
\* flight while its line is free in the registry
C17_Witness ==
    \E h \in Handles :
        /\ handle[h].kind = "Pin" /\ handle[h].st = "disposed"
        /\ InFlight(h, "unexport")
        /\ LockKey(handle[h].id) \notin sessionStorage

\* /sys/class/pwm/pwmchip<chip>/pwm<channel> for the chip and channel that
\* infos reports
ChannelDir(h) ==
    "/sys/class/pwm/pwmchip" \o infos(h).chip
        \o "/pwm" \o ToString(infos(h).channel)

\* C18: every write of setPeriod goes to .../period, every write of
\* setDutyCycle to .../duty_cycle and every write of enable or disable to
\* .../enable, under the directory of the handle's chip and channel.
C18_AttributePaths ==
    \A w \in inflight :
        /\ w.tag = "period" => w.path = ChannelDir(w.h) \o "/period"
        /\ w.tag \in {"duty", "dutyFloat"} => w.path = ChannelDir(w.h) \o "/duty_cycle"
        /\ w.tag = "enable" => w.path = ChannelDir(w.h) \o "/enable"

AlivePwm(h) == handle[h].kind = "PWM" /\ handle[h].st \in {"connecting", "live"}

\* the attribute files the calls on handle h write to
ChannelFiles(h) ==
    {pwnPaths(handle[h].id).period, pwnPaths(handle[h].id).dutyCycle,
     pwnPaths(handle[h].id).enable}

\* C19: two PWM handles alive at the same time are on different (chip,
\* channel) pairs: they export different channels and share no period,
\* duty-cycle or enable attribute file.
C19_DistinctChannels ==
    \A h1, h2 \in Handles :
        (h1 # h2 /\ AlivePwm(h1) /\ AlivePwm(h2)) =>
            /\ handle[h1].id # handle[h2].id
            /\ <<infos(h1).chip, infos(h1).channel>> # <<infos(h2).chip, infos(h2).channel>>
            /\ <<pwmExport(h1, handle[h1].id).path, pwmExport(h1, handle[h1].id).text>>
                 # <<pwmExport(h2, handle[h2].id).path, pwmExport(h2, handle[h2].id).text>>
            /\ ChannelFiles(h1) \cap ChannelFiles(h2) = {}

C21_LiveMeansExported ==
    \A h \in Handles :
        (handle[h].kind = "Pin" /\ handle[h].st = "live")
            => handle[h].id \in gpioExported

====
